---- MODULE Spec2Model ----
(***************************************************************************)
(* Model of the MCP chat client (src/client.py) and of the tool server it  *)
(* talks to (src/server.py).  Text is modelled as sequences of one-        *)
(* character strings so that lower(), strip(), split(",") and the          *)
(* substring test "a in b" are computed as Python computes them.           *)
(***************************************************************************)
EXTENDS Integers, Sequences, FiniteSets, TLC

VARIABLES
    pending_tool_call,  \* MCPClient.pending_tool_call: None or (tool_name, collected_params, missing_params)
    loop,               \* chat_loop: "running" until the break on quit, then "exited"
    last,               \* what the last iteration of chat_loop was: "init", "turn" or "quit"
    query,              \* the argument of the last process_query call (the quit line for "quit")
    entry_pending,      \* pending_tool_call as it was when the last iteration started
    list_calls,         \* number of session.list_tools() calls made by the last iteration
    gemini_calls,       \* number of chat.send_message() calls made by the last iteration
    response_text,      \* gemini_reply.text of the last iteration, NoText when there was none
    tool_calls,         \* the session.call_tool(name, arguments) calls of the last iteration, in order
    failed,             \* the call that raised during the last iteration, "none" when none did
    response,           \* the string process_query returned, NoResponse when it was not called
    srv_call,           \* server: the last tool invocation (tool name, arguments), None before the first
    http_posts,         \* server: the asyncclient.post requests of the last tool invocation, in order
    srv_result,         \* server: what the last tool invocation returned or raised
    srv_log             \* server: the logger records of the last tool invocation, in order

client_vars == <<pending_tool_call, loop, last, query, entry_pending, list_calls,
                 gemini_calls, response_text, tool_calls, failed, response>>

srv_vars == <<srv_call, http_posts, srv_result, srv_log>>

vars == <<pending_tool_call, loop, last, query, entry_pending, list_calls,
          gemini_calls, response_text, tool_calls, failed, response,
          srv_call, http_posts, srv_result, srv_log>>

(***************************************************************************)
(* Text constants                                                          *)
(***************************************************************************)
n_login_tool == <<"l", "o", "g", "i", "n", "_", "t", "o", "o", "l">>

n_query_tool == <<"q", "u", "e", "r", "y", "_", "t", "o", "o", "l">>

p_name == <<"n", "a", "m", "e">>

p_age == <<"a", "g", "e">>

p_query == <<"q", "u", "e", "r", "y">>

p_top_k == <<"t", "o", "p", "_", "k">>

p_min_score == <<"m", "i", "n", "_", "s", "c", "o", "r", "e">>

in_hello == <<"h", "e", "l", "l", "o">>

in_my_name == <<" ", "m", "y", " ", "n", "a", "m", "e">>

in_my_age == <<"m", "y", " ", "a", "g", "e", " ">>

in_NAME_AGE == <<"N", "A", "M", "E", " ", "a", "n", "d", " ", "A", "G", "E">>

in_Alice_30 == <<"A", "l", "i", "c", "e", " ", ",", " ", "3", "0">>

in_Alice == <<"A", "l", "i", "c", "e">>

in_empty == <<>>

in_all_query == <<"q", "u", "e", "r", "y", " ", "t", "o", "p", "_", "k", " ", "m", "i", "n", "_", "s", "c", "o", "r", "e">>

in_quit == <<"q", "u", "i", "t">>

in_Quit_sp == <<" ", "Q", "u", "i", "t", " ">>

r_login == <<"u", "s", "e", " ", "l", "o", "g", "i", "n", "_", "t", "o", "o", "l">>

r_Query == <<"Q", "u", "e", "r", "y", "_", "T", "o", "o", "l">>

r_both == <<"l", "o", "g", "i", "n", "_", "t", "o", "o", "l", " ", "o", "r", " ", "q", "u", "e", "r", "y", "_", "t", "o", "o", "l">>

r_Hi == <<"H", "i">>

q_Quit == <<"Q", "u", "i", "t">>

t_result == <<"d", "o", "n", "e">>

v_30 == <<"3", "0">>

v_name_age == <<"n", "a", "m", "e", ",", " ", "a", "g", "e">>

in_a_b_c == <<"a", ",", "b", ",", "c">>

(***************************************************************************)
(* Python string operations                                                *)
(***************************************************************************)
UpperCase == <<"A","B","C","D","E","F","G","H","I","J","K","L","M",
               "N","O","P","Q","R","S","T","U","V","W","X","Y","Z">>

LowerCase == <<"a","b","c","d","e","f","g","h","i","j","k","l","m",
               "n","o","p","q","r","s","t","u","v","w","x","y","z">>

Whitespace == {" ", "\t", "\n", "\r"}

\* str.lower() on one character
LowerChar(c) ==
    IF \E i \in 1..Len(UpperCase) : UpperCase[i] = c
    THEN LowerCase[CHOOSE i \in 1..Len(UpperCase) : UpperCase[i] = c]
    ELSE c

\* str.lower()
Lower(s) == [i \in 1..Len(s) |-> LowerChar(s[i])]

\* the Python test "sub in s" on strings
Contains(sub, s) ==
    \E i \in 0..(Len(s) - Len(sub)) : SubSeq(s, i + 1, i + Len(sub)) = sub

\* str.strip()
RECURSIVE Strip(_)
Strip(s) ==
    IF s = <<>> THEN s
    ELSE IF s[1] \in Whitespace THEN Strip(Tail(s))
    ELSE IF s[Len(s)] \in Whitespace THEN Strip(SubSeq(s, 1, Len(s) - 1))
    ELSE s

\* str.split(","): one more piece than there are commas, empty pieces kept
RECURSIVE SplitComma(_)
SplitComma(s) ==
    IF \E i \in 1..Len(s) : s[i] = ","
    THEN LET i == CHOOSE j \in 1..Len(s) :
                      s[j] = "," /\ \A k \in 1..(j - 1) : s[k] # ","
         IN  <<SubSeq(s, 1, i - 1)>> \o SplitComma(SubSeq(s, i + 1, Len(s)))
    ELSE <<s>>

\* ', '.join(names)
RECURSIVE JoinComma(_)
JoinComma(names) ==
    IF names = <<>> THEN <<>>
    ELSE IF Len(names) = 1 THEN names[1]
    ELSE names[1] \o <<",", " ">> \o JoinComma(Tail(names))

(***************************************************************************)
(* The tool server: the tools it registers, in registration order, with    *)
(* the parameters of each signature (schema properties, in declaration     *)
(* order) and those without a default (schema required).                   *)
(***************************************************************************)
login_tool ==
    [name |-> n_login_tool,
     input_schema |-> [properties |-> <<p_name, p_age>>, required |-> <<>>]]

query_tool ==
    [name |-> n_query_tool,
     input_schema |-> [properties |-> <<p_query, p_top_k, p_min_score>>,
                       required |-> <<p_query>>]]

\* response.tools of session.list_tools()
ServerTools == <<login_tool, query_tool>>

(***************************************************************************)
(* The environment of one turn                                             *)
(***************************************************************************)
\* lines typed at the "Query: " prompt
Inputs == {in_hello, in_my_name, in_my_age, in_NAME_AGE, in_Alice_30, in_Alice,
           in_empty, in_all_query, in_a_b_c, in_quit, in_Quit_sp}

\* texts the model may reply with
Replies == {r_login, r_Query, r_both, r_Hi}

\* what session.call_tool does: returns a result with one text item, returns
\* a result with no content item, or raises
ToolOutcomes == {"ok", "nocontent", "raise"}

None == <<>>

NoText == <<"<none>">>

NoResponse == [fmt |-> "none"]

(***************************************************************************)
(* MCPClient                                                               *)
(***************************************************************************)
\* variant of Truthy: the stored pending call is never recognised
Truthy_Never(p) == FALSE

\* truth value of self.pending_tool_call in "if self.pending_tool_call:"
Truthy(p) == p # None

\* variant of UserInputs: the pieces are not stripped
UserInputs_Untrimmed(q) == SplitComma(q)

\* user_inputs = [val.strip() for val in query.split(",")]
UserInputs(q) ==
    LET parts == SplitComma(q) IN [i \in 1..Len(parts) |-> Strip(parts[i])]

\* for key, val in zip(missing_params, user_inputs): collected_params[key] = val
Merge(collected_params, missing_params, user_inputs) ==
    LET n == IF Len(missing_params) < Len(user_inputs)
             THEN Len(missing_params) ELSE Len(user_inputs)
        keys == {missing_params[i] : i \in 1..n}
        lastIdx(k) == CHOOSE i \in 1..n :
                         missing_params[i] = k
                         /\ \A j \in (i + 1)..n : missing_params[j] # k
    IN  [k \in (DOMAIN collected_params) \cup keys |->
            IF k \in keys THEN user_inputs[lastIdx(k)] ELSE collected_params[k]]

\* variant of RequiredProps: only the parameters the schema lists as required
RequiredProps_SchemaRequired(tool) == tool.input_schema.required

\* required_props = list(tool['input_schema']['properties'].keys())
RequiredProps(tool) == tool.input_schema.properties

\* variant of ProvidedParams: the substring test is case-sensitive
ProvidedParams_CaseSensitive(required_props, q) ==
    LET hit == {required_props[i] : i \in
                  {j \in 1..Len(required_props) : Contains(required_props[j], q)}}
    IN  [k \in hit |-> q]

\* for param in required_props: if param.lower() in query.lower(): provided_params[param] = query
ProvidedParams(required_props, q) ==
    LET hit == {required_props[i] : i \in
                  {j \in 1..Len(required_props) :
                      Contains(Lower(required_props[j]), Lower(q))}}
    IN  [k \in hit |-> q]

\* variant of MissingParams: every parameter is asked for again
MissingParams_All(required_props, provided_params) == required_props

\* missing_params = [p for p in required_props if p not in provided_params]
RECURSIVE MissingParams(_, _)
MissingParams(required_props, provided_params) ==
    IF required_props = <<>> THEN <<>>
    ELSE (IF Head(required_props) \in DOMAIN provided_params
          THEN <<>> ELSE <<Head(required_props)>>)
         \o MissingParams(Tail(required_props), provided_params)

\* if tool_name.lower() in response_text.lower()
ToolMatches(tool, text) == Contains(Lower(tool.name), Lower(text))

\* variant of MatchedTool: the last listed tool named in the text wins
MatchedTool_Last(available_tools, text) ==
    IF \E i \in 1..Len(available_tools) : ToolMatches(available_tools[i], text)
    THEN CHOOSE i \in 1..Len(available_tools) :
            ToolMatches(available_tools[i], text)
            /\ \A j \in (i + 1)..Len(available_tools) :
                   ~ToolMatches(available_tools[j], text)
    ELSE 0

\* for tool in available_tools: the index of the tool whose branch returns,
\* 0 when the loop runs to its end
MatchedTool(available_tools, text) ==
    IF \E i \in 1..Len(available_tools) : ToolMatches(available_tools[i], text)
    THEN CHOOSE i \in 1..Len(available_tools) :
            ToolMatches(available_tools[i], text)
            /\ \A j \in 1..(i - 1) : ~ToolMatches(available_tools[j], text)
    ELSE 0

\* result.content[0].text for each outcome of call_tool that returns
ResultContent(outcome) == IF outcome = "ok" THEN <<t_result>> ELSE <<>>

\* the templates of the strings process_query returns
F_Expected == "Expected {n} values: {names}"

F_Used == "Used tool {tool_name}: {text}"

F_ErrorCalling == "Error calling tool {tool_name}: {e}"

F_ToUse == "To use {tool_name}, please provide information in this specific format: {names}"

F_ErrorProcessing == "Error processing query: {e}"

F_Text == "{text}"

\* the strings process_query returns
ExpectedMsg(missing_params) ==
    [fmt |-> F_Expected,
     n |-> Len(missing_params), names |-> JoinComma(missing_params)]

UsedMsg(tool_name, text) ==
    [fmt |-> F_Used, tool_name |-> tool_name, text |-> text]

ErrorCallingMsg(tool_name, e) ==
    [fmt |-> F_ErrorCalling, tool_name |-> tool_name, e |-> e]

ToUseMsg(tool_name, missing_params) ==
    [fmt |-> F_ToUse,
     tool_name |-> tool_name, names |-> JoinComma(missing_params)]

ErrorProcessingMsg(e) == [fmt |-> F_ErrorProcessing, e |-> e]

TextMsg(text) == [fmt |-> F_Text, text |-> text]

\* variant of IsQuit: the comparison is case-sensitive
IsQuit_CaseSensitive(q) == q = in_quit

\* if query.lower() == 'quit'
IsQuit(q) == Lower(q) = in_quit

\* variant of PendingAfterMismatch: the count check resets the pending call
PendingAfterMismatch_Cleared(p) == None

\* variant of PendingAfterMismatch: the count check drops the first missing
\* parameter and stores the rest as a new pending call
PendingAfterMismatch_Partial(p) == <<p[1], p[2], Tail(p[3])>>

\* self.pending_tool_call after the return of the count check
PendingAfterMismatch(p) == p

\* variant of PendingAfterResume: no reset after a successful call
PendingAfterResume_NoResetOnSuccess(p, outcome) ==
    IF outcome = "ok" THEN p ELSE None

\* variant of PendingAfterResume: no reset in the except branch
PendingAfterResume_NoResetOnError(p, outcome) ==
    IF outcome = "raise" THEN p ELSE None

\* self.pending_tool_call after the try/except around call_tool of the resumed call
PendingAfterResume(p, outcome) == None

\* what process_query returns for a resumed call
ResumeResponse(tool_name, outcome) ==
    IF outcome = "ok" THEN UsedMsg(tool_name, ResultContent(outcome)[1])
    ELSE IF outcome = "raise" THEN ErrorCallingMsg(tool_name, "call_tool")
    ELSE ErrorCallingMsg(tool_name, "IndexError")

\* variant of DispatchResponse: the except branch returns nothing
DispatchResponse_Swallowed(tool_name, outcome) ==
    IF outcome = "ok" THEN UsedMsg(tool_name, ResultContent(outcome)[1])
    ELSE NoResponse

\* what process_query returns for a call made in the normal flow
DispatchResponse(tool_name, outcome) ==
    IF outcome = "ok" THEN UsedMsg(tool_name, ResultContent(outcome)[1])
    ELSE IF outcome = "raise" THEN ErrorProcessingMsg("call_tool")
    ELSE ErrorProcessingMsg("IndexError")

\* the call that raised, for an outcome of call_tool
Failure(outcome) ==
    IF outcome = "ok" THEN "none"
    ELSE IF outcome = "raise" THEN "call_tool" ELSE "content"

\* variant of NoMatchResponse: the lowered text used for matching is returned
NoMatchResponse_Lowered(text) == TextMsg(Lower(text))

\* the return value when no tool matched
NoMatchResponse(text) == TextMsg(text)

\* variant of QueryToolParams: query_tool goes through parameter inference
QueryToolParams_Inferred(q) == ProvidedParams(RequiredProps(query_tool), q)

\* the arguments of the special-cased query_tool call
QueryToolParams(q) == [k \in {p_query} |-> q]

(***************************************************************************)
(* The tool server (src/server.py).  A tool is invoked with a mapping of   *)
(* argument names to values; the backend answers each post with a 2xx      *)
(* response carrying JSON, a non-2xx status, a network error, or a 2xx      *)
(* response whose body is not JSON.                                         *)
(***************************************************************************)
login_api == "http://localhost:8000/login"

query_api == "http://localhost:8000/query"

\* the default of a parameter declared "= None", and an argument passed as None
PyNone == <<"<None>">>

\* top_k: int = 5
DefaultTopK == 5

\* min_score: float = 0.5
DefaultMinScore == "0.5"

\* how the backend may answer one post
BackendReplies == {"ok", "status", "network", "badjson"}

\* response.json() of a 2xx response with a JSON body
BackendJson == [json |-> "body"]

\* srv_result before any invocation
NoResult == [kind |-> "none"]

\* the value of parameter p in a call with arguments args
Arg(args, p, default) == IF p \in DOMAIN args THEN args[p] ELSE default

\* the exception a post raises for a backend answer:
\* post raises httpx.RequestError, raise_for_status raises
\* httpx.HTTPStatusError, response.json() raises ValueError
ApiException(reply) ==
    IF reply = "network" THEN "httpx.RequestError"
    ELSE IF reply = "status" THEN "httpx.HTTPStatusError"
    ELSE "ValueError"

\* what one post yields: result for a 2xx JSON answer, otherwise the
\* exception, re-raised by the except clause
ApiResult(reply) ==
    IF reply = "ok" THEN [kind |-> "return", value |-> BackendJson]
    ELSE [kind |-> "raise", exc |-> ApiException(reply)]

\* variant of call_login_api: a failed post is sent once more
call_login_api_Retry(payload, reply) ==
    [posts |-> IF reply = "ok"
               THEN <<[url |-> login_api, json |-> payload, reply |-> reply]>>
               ELSE <<[url |-> login_api, json |-> payload, reply |-> reply],
                      [url |-> login_api, json |-> payload, reply |-> reply]>>,
     result |-> ApiResult(reply),
     log |-> IF reply = "ok" THEN <<>> ELSE <<"error">>]

\* call_login_api: one post, the error logged and re-raised
call_login_api(payload, reply) ==
    [posts |-> <<[url |-> login_api, json |-> payload, reply |-> reply]>>,
     result |-> ApiResult(reply),
     log |-> IF reply = "ok" THEN <<>> ELSE <<"error">>]

\* call_query_api: one post, the error logged and re-raised
call_query_api(payload, reply) ==
    [posts |-> <<[url |-> query_api, json |-> payload, reply |-> reply]>>,
     result |-> ApiResult(reply),
     log |-> IF reply = "ok" THEN <<>> ELSE <<"error">>]

\* variant of LoginIncomplete: "and" in place of "or"
LoginIncomplete_Both(name, age) == name = PyNone /\ age = PyNone

\* if name is None or age is None
LoginIncomplete(name, age) == name = PyNone \/ age = PyNone

\* missing = []; if name is None: append "name"; if age is None: append "age"
LoginMissing(name, age) ==
    (IF name = PyNone THEN <<p_name>> ELSE <<>>)
    \o (IF age = PyNone THEN <<p_age>> ELSE <<>>)

\* the dictionary login_tool returns when an argument is missing
MissingArguments(missing) ==
    [error |-> "missing_arguments",
     message |-> [fmt |-> "To help you with the login process, please provide your {names}.",
                  names |-> JoinComma(missing)]]

\* the body of login_tool
login_tool_call(args, reply) ==
    LET name == Arg(args, p_name, PyNone)
        age == Arg(args, p_age, PyNone)
    IN  IF LoginIncomplete(name, age)
        THEN [posts |-> <<>>,
              result |-> [kind |-> "return",
                          value |-> MissingArguments(LoginMissing(name, age))],
              log |-> <<>>]
        ELSE LET r == call_login_api((p_name :> name) @@ (p_age :> age), reply)
             IN  [posts |-> r.posts,
                  result |-> r.result,
                  log |-> <<"info">> \o r.log]

\* the body of query_tool
query_tool_call(args, reply) ==
    call_query_api((p_query :> args[p_query])
                   @@ (p_top_k :> Arg(args, p_top_k, DefaultTopK))
                   @@ (p_min_score :> Arg(args, p_min_score, DefaultMinScore)),
                   reply)

\* the arguments login_tool may be invoked with: each of name and age is
\* absent, None or a value; the empty string is a value
LoginArgs ==
    UNION {{[p \in D |-> IF p = p_name THEN n ELSE a] :
               n \in {PyNone, in_Alice, in_empty}, a \in {PyNone, v_30}} :
           D \in SUBSET {p_name, p_age}}

\* the arguments query_tool may be invoked with: query is always given,
\* top_k and min_score are optional
QueryArgs ==
    UNION {{[p \in {p_query} \cup D |->
                IF p = p_query THEN q ELSE IF p = p_top_k THEN k ELSE m] :
               q \in {in_hello, in_empty, in_Alice, in_all_query},
               k \in {1, 3}, m \in {"0.9"}} :
           D \in SUBSET {p_top_k, p_min_score}}

\* the server runs login_tool with an argument missing
LoginToolMissingArguments ==
    /\ \E args \in LoginArgs, reply \in BackendReplies :
         LET r == login_tool_call(args, reply)
         IN  /\ r.posts = <<>>
             /\ srv_call' = <<n_login_tool, args>>
             /\ http_posts' = r.posts
             /\ srv_result' = r.result
             /\ srv_log' = r.log
    /\ UNCHANGED client_vars

\* the server runs login_tool and forwards to the backend
LoginToolForwards ==
    /\ \E args \in LoginArgs, reply \in BackendReplies :
         LET r == login_tool_call(args, reply)
         IN  /\ r.posts # <<>>
             /\ srv_call' = <<n_login_tool, args>>
             /\ http_posts' = r.posts
             /\ srv_result' = r.result
             /\ srv_log' = r.log
    /\ UNCHANGED client_vars

\* the server runs query_tool
QueryToolForwards ==
    /\ \E args \in QueryArgs, reply \in BackendReplies :
         LET r == query_tool_call(args, reply)
         IN  /\ srv_call' = <<n_query_tool, args>>
             /\ http_posts' = r.posts
             /\ srv_result' = r.result
             /\ srv_log' = r.log
    /\ UNCHANGED client_vars

ServerNext ==
    \/ LoginToolMissingArguments
    \/ LoginToolForwards
    \/ QueryToolForwards

Init ==
    /\ pending_tool_call = None
    /\ loop = "running"
    /\ last = "init"
    /\ query = <<>>
    /\ entry_pending = None
    /\ list_calls = 0
    /\ gemini_calls = 0
    /\ response_text = NoText
    /\ tool_calls = <<>>
    /\ failed = "none"
    /\ response = NoResponse
    /\ srv_call = None
    /\ http_posts = <<>>
    /\ srv_result = NoResult
    /\ srv_log = <<>>

\* chat_loop reads the line quit: break
Quit ==
    /\ loop = "running"
    /\ UNCHANGED srv_vars
    /\ \E line \in Inputs :
         /\ IsQuit(Strip(line))
         /\ query' = Strip(line)
    /\ loop' = "exited"
    /\ last' = "quit"
    /\ entry_pending' = pending_tool_call
    /\ list_calls' = 0
    /\ gemini_calls' = 0
    /\ response_text' = NoText
    /\ tool_calls' = <<>>
    /\ failed' = "none"
    /\ response' = NoResponse
    /\ UNCHANGED pending_tool_call

\* process_query, CASE 1, the number of values differs from the number of
\* missing parameters
ResumeMismatch ==
    /\ loop = "running"
    /\ UNCHANGED srv_vars
    /\ Truthy(pending_tool_call)
    /\ \E line \in Inputs :
         LET q == Strip(line)
             missing_params == pending_tool_call[3]
         IN  /\ ~IsQuit(q)
             /\ Len(UserInputs(q)) # Len(missing_params)
             /\ query' = q
             /\ response' = ExpectedMsg(missing_params)
    /\ pending_tool_call' = PendingAfterMismatch(pending_tool_call)
    /\ last' = "turn"
    /\ entry_pending' = pending_tool_call
    /\ list_calls' = 0
    /\ gemini_calls' = 0
    /\ response_text' = NoText
    /\ tool_calls' = <<>>
    /\ failed' = "none"
    /\ UNCHANGED loop

\* process_query, CASE 1, the values are merged and the pending tool is called
ResumeCall ==
    /\ loop = "running"
    /\ UNCHANGED srv_vars
    /\ Truthy(pending_tool_call)
    /\ \E line \in Inputs, outcome \in ToolOutcomes :
         LET q == Strip(line)
             tool_name == pending_tool_call[1]
             collected_params == pending_tool_call[2]
             missing_params == pending_tool_call[3]
             user_inputs == UserInputs(q)
         IN  /\ ~IsQuit(q)
             /\ Len(user_inputs) = Len(missing_params)
             /\ query' = q
             /\ tool_calls' =
                  <<<<tool_name, Merge(collected_params, missing_params, user_inputs)>>>>
             /\ pending_tool_call' = PendingAfterResume(pending_tool_call, outcome)
             /\ response' = ResumeResponse(tool_name, outcome)
             /\ failed' = Failure(outcome)
    /\ last' = "turn"
    /\ entry_pending' = pending_tool_call
    /\ list_calls' = 0
    /\ gemini_calls' = 0
    /\ response_text' = NoText
    /\ UNCHANGED loop

\* process_query, CASE 2, session.list_tools() raises
DispatchListToolsFails ==
    /\ loop = "running"
    /\ UNCHANGED srv_vars
    /\ ~Truthy(pending_tool_call)
    /\ \E line \in Inputs :
         /\ ~IsQuit(Strip(line))
         /\ query' = Strip(line)
    /\ last' = "turn"
    /\ entry_pending' = pending_tool_call
    /\ list_calls' = 1
    /\ gemini_calls' = 0
    /\ response_text' = NoText
    /\ tool_calls' = <<>>
    /\ failed' = "list_tools"
    /\ response' = ErrorProcessingMsg("list_tools")
    /\ UNCHANGED <<pending_tool_call, loop>>

\* process_query, CASE 2, chat.send_message() or gemini_reply.text raises
DispatchGeminiFails ==
    /\ loop = "running"
    /\ UNCHANGED srv_vars
    /\ ~Truthy(pending_tool_call)
    /\ \E line \in Inputs :
         /\ ~IsQuit(Strip(line))
         /\ query' = Strip(line)
    /\ last' = "turn"
    /\ entry_pending' = pending_tool_call
    /\ list_calls' = 1
    /\ gemini_calls' = 1
    /\ response_text' = NoText
    /\ tool_calls' = <<>>
    /\ failed' = "send_message"
    /\ response' = ErrorProcessingMsg("send_message")
    /\ UNCHANGED <<pending_tool_call, loop>>

\* process_query, CASE 2, no tool name occurs in the reply: return response_text
DispatchNoMatch ==
    /\ loop = "running"
    /\ UNCHANGED srv_vars
    /\ ~Truthy(pending_tool_call)
    /\ \E line \in Inputs, text \in Replies :
         /\ ~IsQuit(Strip(line))
         /\ MatchedTool(ServerTools, text) = 0
         /\ query' = Strip(line)
         /\ response_text' = text
         /\ response' = NoMatchResponse(text)
    /\ last' = "turn"
    /\ entry_pending' = pending_tool_call
    /\ list_calls' = 1
    /\ gemini_calls' = 1
    /\ tool_calls' = <<>>
    /\ failed' = "none"
    /\ UNCHANGED <<pending_tool_call, loop>>

\* process_query, CASE 2, the matched tool is query_tool
DispatchQueryTool ==
    /\ loop = "running"
    /\ UNCHANGED srv_vars
    /\ ~Truthy(pending_tool_call)
    /\ \E line \in Inputs, text \in Replies, outcome \in ToolOutcomes :
         LET q == Strip(line)
             m == MatchedTool(ServerTools, text)
         IN  /\ ~IsQuit(q)
             /\ m # 0
             /\ ServerTools[m].name = n_query_tool
             /\ query' = q
             /\ response_text' = text
             /\ tool_calls' = <<<<ServerTools[m].name, QueryToolParams(q)>>>>
             /\ response' = DispatchResponse(ServerTools[m].name, outcome)
             /\ failed' = Failure(outcome)
    /\ last' = "turn"
    /\ entry_pending' = pending_tool_call
    /\ list_calls' = 1
    /\ gemini_calls' = 1
    /\ UNCHANGED <<pending_tool_call, loop>>

\* process_query, CASE 2, the matched tool has parameters the query does not
\* name: store the pending call and ask for them
DispatchMissing ==
    /\ loop = "running"
    /\ UNCHANGED srv_vars
    /\ ~Truthy(pending_tool_call)
    /\ \E line \in Inputs, text \in Replies :
         LET q == Strip(line)
             m == MatchedTool(ServerTools, text)
         IN  /\ ~IsQuit(q)
             /\ m # 0
             /\ ServerTools[m].name # n_query_tool
             /\ LET tool_name == ServerTools[m].name
                    required_props == RequiredProps(ServerTools[m])
                    provided_params == ProvidedParams(required_props, q)
                    missing_params == MissingParams(required_props, provided_params)
                IN  /\ missing_params # <<>>
                    /\ pending_tool_call' = <<tool_name, provided_params, missing_params>>
                    /\ response' = ToUseMsg(tool_name, missing_params)
             /\ query' = q
             /\ response_text' = text
    /\ last' = "turn"
    /\ entry_pending' = pending_tool_call
    /\ list_calls' = 1
    /\ gemini_calls' = 1
    /\ tool_calls' = <<>>
    /\ failed' = "none"
    /\ UNCHANGED loop

\* process_query, CASE 2, every parameter of the matched tool is named in
\* the query: call the tool
DispatchCall ==
    /\ loop = "running"
    /\ UNCHANGED srv_vars
    /\ ~Truthy(pending_tool_call)
    /\ \E line \in Inputs, text \in Replies, outcome \in ToolOutcomes :
         LET q == Strip(line)
             m == MatchedTool(ServerTools, text)
         IN  /\ ~IsQuit(q)
             /\ m # 0
             /\ ServerTools[m].name # n_query_tool
             /\ LET tool_name == ServerTools[m].name
                    required_props == RequiredProps(ServerTools[m])
                    provided_params == ProvidedParams(required_props, q)
                    missing_params == MissingParams(required_props, provided_params)
                IN  /\ missing_params = <<>>
                    /\ tool_calls' = <<<<tool_name, provided_params>>>>
                    /\ response' = DispatchResponse(tool_name, outcome)
             /\ query' = q
             /\ response_text' = text
             /\ failed' = Failure(outcome)
    /\ last' = "turn"
    /\ entry_pending' = pending_tool_call
    /\ list_calls' = 1
    /\ gemini_calls' = 1
    /\ UNCHANGED <<pending_tool_call, loop>>

Next ==
    \/ Quit
    \/ ResumeMismatch
    \/ ResumeCall
    \/ DispatchListToolsFails
    \/ DispatchGeminiFails
    \/ DispatchNoMatch
    \/ DispatchQueryTool
    \/ DispatchMissing
    \/ DispatchCall

Spec == Init /\ [][Next]_vars

\* the tool server alone, invoked by any client
ServerSpec == Init /\ [][ServerNext]_vars

(***************************************************************************)
(* Properties of process_query.  They are stated over the record of the    *)
(* last iteration: entry_pending is the pending call the turn started      *)
(* with, pending_tool_call the one it ended with.                          *)
(***************************************************************************)
\* the turn was handled by CASE 1 (a pending call existed)
ResumedTurn == last = "turn" /\ Truthy(entry_pending)

\* the turn was handled by CASE 2 and obtained a reply from the model
DispatchedTurn == last = "turn" /\ ~Truthy(entry_pending) /\ response_text # NoText

\* the parameters of a tool that do not pass the substring test against q,
\* in schema order
Unsatisfied(tool, q) ==
    SelectSeq(tool.input_schema.properties,
              LAMBDA p : ~Contains(Lower(p), Lower(q)))

\* C1: when a pending call exists and the comma-separated input has a number
\* of values different from the number of missing parameters, the turn
\* returns the message stating the expected count, calls no tool and leaves
\* the pending call exactly as it was.
C1_MismatchKeepsPending ==
    (ResumedTurn /\ Len(SplitComma(query)) # Len(entry_pending[3]))
        => /\ response.fmt = F_Expected
           /\ response.n = Len(entry_pending[3])
           /\ tool_calls = <<>>
           /\ gemini_calls = 0
           /\ pending_tool_call = entry_pending

C1_Witness ==
    /\ ResumedTurn
    /\ entry_pending[3] = <<p_name, p_age>>
    /\ query = in_Alice
    /\ response.fmt = F_Expected
    /\ response.n = 2
    /\ pending_tool_call = entry_pending

\* C2: when a pending call exists and the input has exactly as many values
\* as there are missing parameters, the pending tool is called exactly once
\* with the collected parameters plus each missing name mapped, in order, to
\* the corresponding trimmed value, and no pending call remains.
C2_ResumeCallsWithMergedParams ==
    (ResumedTurn /\ Len(SplitComma(query)) = Len(entry_pending[3]))
        => LET collected == entry_pending[2]
               missing == entry_pending[3]
               parts == SplitComma(query)
           IN  /\ Len(tool_calls) = 1
               /\ tool_calls[1][1] = entry_pending[1]
               /\ DOMAIN tool_calls[1][2] =
                      (DOMAIN collected) \cup {missing[i] : i \in 1..Len(missing)}
               /\ \A i \in 1..Len(missing) :
                      tool_calls[1][2][missing[i]] = Strip(parts[i])
               /\ \A k \in DOMAIN collected : tool_calls[1][2][k] = collected[k]
               /\ pending_tool_call = None

C2_Witness ==
    /\ ResumedTurn
    /\ entry_pending[3] = <<p_name, p_age>>
    /\ query = in_Alice_30
    /\ tool_calls = <<<<n_login_tool, (p_name :> in_Alice) @@ (p_age :> v_30)>>>>
    /\ pending_tool_call = None

\* C3 as stated: a pending call is cleared by the very next turn whatever
\* that turn's outcome, so none survives two consecutive turns.
C3_ClearedByNextTurn ==
    ResumedTurn => pending_tool_call = None

\* C3, amended: the turn after a pending call was created clears it exactly
\* when the input has as many values as there are missing parameters
\* (whether the call then succeeds or fails); with any other number of
\* values the pending call is left as it was.
C3_ClearedUnlessMismatch ==
    ResumedTurn =>
        IF Len(SplitComma(query)) = Len(entry_pending[3])
        THEN pending_tool_call = None
        ELSE pending_tool_call = entry_pending

C3_Witness ==
    /\ ResumedTurn
    /\ entry_pending[3] = <<p_age>>
    /\ query = in_Alice_30
    /\ pending_tool_call = entry_pending

\* C4: the session holds at most one pending call, it is either awaiting
\* parameters (one triple stored) or in normal dispatch (None stored), and
\* a pending call is created only by a turn that started in normal dispatch.
C4_SinglePendingCreatedInDispatch ==
    /\ \/ pending_tool_call = None
       \/ /\ Len(pending_tool_call) = 3
          /\ \E i \in 1..Len(ServerTools) : ServerTools[i].name = pending_tool_call[1]
    /\ (Truthy(pending_tool_call) /\ pending_tool_call # entry_pending)
          => (last = "turn" /\ ~Truthy(entry_pending) /\ gemini_calls = 1)

C4_Witness ==
    /\ last = "turn"
    /\ ~Truthy(entry_pending)
    /\ Truthy(pending_tool_call)
    /\ gemini_calls = 1

\* C5: in normal dispatch, when the selected tool is not query_tool and at
\* least one of its schema parameters does not occur (case-insensitively) in
\* the query, no tool is called, the stored pending call's missing parameters
\* are the unsatisfied names in schema order, and the prompt lists them in
\* that order separated by commas.
C5_MissingParamsStoredInOrder ==
    (/\ DispatchedTurn
     /\ MatchedTool(ServerTools, response_text) # 0
     /\ ServerTools[MatchedTool(ServerTools, response_text)].name # n_query_tool
     /\ Unsatisfied(ServerTools[MatchedTool(ServerTools, response_text)], query) # <<>>)
        => LET tool == ServerTools[MatchedTool(ServerTools, response_text)]
           IN  /\ tool_calls = <<>>
               /\ Truthy(pending_tool_call)
               /\ pending_tool_call[1] = tool.name
               /\ pending_tool_call[3] = Unsatisfied(tool, query)
               /\ response.fmt = F_ToUse
               /\ response.tool_name = tool.name
               /\ response.names = JoinComma(Unsatisfied(tool, query))

C5_Witness ==
    /\ DispatchedTurn
    /\ response_text = r_login
    /\ query = in_hello
    /\ tool_calls = <<>>
    /\ Truthy(pending_tool_call)
    /\ pending_tool_call[3] = <<p_name, p_age>>
    /\ response.names = v_name_age

\* every schema parameter of the tool passes the substring test against q
AllSatisfied(tool, q) == Unsatisfied(tool, q) = <<>>

\* the mapping that binds every schema parameter of the tool to q
AllBoundTo(tool, q) ==
    [k \in {tool.input_schema.properties[i] :
               i \in 1..Len(tool.input_schema.properties)} |-> q]

\* C6 as stated: in normal dispatch, when every parameter name of the
\* selected tool occurs (case-insensitively) in the query, the tool is called
\* in that turn with each such parameter bound to the whole query, and no
\* pending call is created.
C6_AllParamsBoundToQuery ==
    (/\ DispatchedTurn
     /\ MatchedTool(ServerTools, response_text) # 0
     /\ AllSatisfied(ServerTools[MatchedTool(ServerTools, response_text)], query))
        => LET tool == ServerTools[MatchedTool(ServerTools, response_text)]
           IN  /\ tool_calls = <<<<tool.name, AllBoundTo(tool, query)>>>>
               /\ pending_tool_call = None

\* C6, amended: the same, for a selected tool other than query_tool (for
\* query_tool only the parameter query is bound, see C7).
C6_AllParamsBoundToQueryExceptQueryTool ==
    (/\ DispatchedTurn
     /\ MatchedTool(ServerTools, response_text) # 0
     /\ ServerTools[MatchedTool(ServerTools, response_text)].name # n_query_tool
     /\ AllSatisfied(ServerTools[MatchedTool(ServerTools, response_text)], query))
        => LET tool == ServerTools[MatchedTool(ServerTools, response_text)]
           IN  /\ tool_calls = <<<<tool.name, AllBoundTo(tool, query)>>>>
               /\ pending_tool_call = None

C6_Witness ==
    /\ DispatchedTurn
    /\ response_text = r_login
    /\ query = in_NAME_AGE
    /\ tool_calls =
         <<<<n_login_tool, (p_name :> in_NAME_AGE) @@ (p_age :> in_NAME_AGE)>>>>
    /\ pending_tool_call = None

\* C7 as stated: in every normal-dispatch turn whose reply contains the name
\* query_tool, query_tool is called with exactly {query: the whole query},
\* whatever else the reply contains, and no pending call is created.
C7_QueryToolWheneverNamed ==
    (DispatchedTurn /\ Contains(Lower(n_query_tool), Lower(response_text)))
        => /\ tool_calls = <<<<n_query_tool, (p_query :> query)>>>>
           /\ pending_tool_call = None

\* C7, amended: in every normal-dispatch turn in which query_tool is the
\* first tool, in listing order, whose name occurs in the reply, query_tool is
\* called with exactly {query: the whole query}, whatever the query contains,
\* and no pending call is created.
C7_QueryToolWhenFirstMatch ==
    (/\ DispatchedTurn
     /\ Contains(Lower(n_query_tool), Lower(response_text))
     /\ \A i \in 1..Len(ServerTools) :
           (\A j \in 1..(i - 1) : ServerTools[j].name # n_query_tool)
           /\ ServerTools[i].name # n_query_tool
              => ~Contains(Lower(ServerTools[i].name), Lower(response_text)))
        => /\ tool_calls = <<<<n_query_tool, (p_query :> query)>>>>
           /\ pending_tool_call = None

C7_Witness ==
    /\ DispatchedTurn
    /\ response_text = r_Query
    /\ query = in_hello
    /\ tool_calls = <<<<n_query_tool, (p_query :> in_hello)>>>>
    /\ pending_tool_call = None

\* C8: in normal dispatch, when no known tool's name occurs
\* (case-insensitively) in the reply, the turn returns the reply text
\* unchanged, calls no tool and leaves the session without a pending call.
C8_NoMatchReturnsReply ==
    (/\ DispatchedTurn
     /\ \A i \in 1..Len(ServerTools) :
           ~Contains(Lower(ServerTools[i].name), Lower(response_text)))
        => /\ response.fmt = F_Text
           /\ response.text = response_text
           /\ tool_calls = <<>>
           /\ pending_tool_call = None

C8_Witness ==
    /\ DispatchedTurn
    /\ response_text = r_Hi
    /\ response = [fmt |-> F_Text, text |-> r_Hi]
    /\ tool_calls = <<>>

\* C9: when the tool call made while resuming a pending call fails, the
\* turn returns the error string for that tool and the pending call is
\* cleared, so that the following turn goes through normal dispatch, not
\* through the parameter input.
C9_FailedResumeClearsPending ==
    [][(ResumedTurn /\ failed # "none")
          => /\ response.fmt = F_ErrorCalling
             /\ response.tool_name = entry_pending[1]
             /\ pending_tool_call = None
             /\ (last' = "turn" => ~Truthy(entry_pending') /\ list_calls' = 1)]_vars

C9_Witness ==
    /\ ResumedTurn
    /\ failed = "call_tool"
    /\ Len(tool_calls) = 1
    /\ response.fmt = F_ErrorCalling
    /\ pending_tool_call = None

\* C10: after a turn in which the tool listing, the model call or a tool
\* call fails, the turn has returned an error string, the chat loop is still
\* running and no pending call is left, so the next query goes through
\* normal dispatch.
C10_FailureKeepsSessionRunning ==
    (last = "turn" /\ failed # "none")
        => /\ response.fmt \in {F_ErrorCalling, F_ErrorProcessing}
           /\ loop = "running"
           /\ pending_tool_call = None

C10_Witness ==
    /\ last = "turn"
    /\ ~Truthy(entry_pending)
    /\ failed = "call_tool"
    /\ Len(tool_calls) = 1
    /\ tool_calls[1][1] = n_query_tool
    /\ response.fmt = F_ErrorProcessing
    /\ loop = "running"

(***************************************************************************)
(* Properties of chat_loop                                                 *)
(***************************************************************************)
\* C11: an iteration whose trimmed input is quit, in any letter case, ends
\* the loop without calling the model, the tool listing or any tool and
\* without touching the pending call, whether or not a pending call exists;
\* no other input ends the loop, and after the loop has ended no further
\* iteration happens.
C11_QuitEndsLoop ==
    [][/\ loop = "running"
       /\ last' # "init"
       /\ (Lower(query') = in_quit <=> last' = "quit")
       /\ (last' = "quit" <=> loop' = "exited")
       /\ last' = "quit" =>
             /\ gemini_calls' = 0
             /\ list_calls' = 0
             /\ tool_calls' = <<>>
             /\ response' = NoResponse
             /\ pending_tool_call' = pending_tool_call]_vars

C11_Witness ==
    /\ last = "quit"
    /\ loop = "exited"
    /\ query = q_Quit
    /\ pending_tool_call # None
    /\ gemini_calls = 0
    /\ tool_calls = <<>>

(***************************************************************************)
(* Properties of the tool server, checked under ServerSpec                 *)
(***************************************************************************)
\* those of name, age that a call of login_tool leaves None, name first
LoginAbsent(args) ==
    SelectSeq(<<p_name, p_age>>,
              LAMBDA p : p \notin DOMAIN args \/ args[p] = PyNone)

\* C12: login_tool called with name or age absent makes no request to the
\* backend and returns the missing_arguments response whose message names
\* exactly the absent parameters, name before age; it posts only when both
\* are present.
C12_LoginMissingArguments ==
    (srv_call # None /\ srv_call[1] = n_login_tool
       /\ LoginAbsent(srv_call[2]) # <<>>)
        => /\ http_posts = <<>>
           /\ srv_result.kind = "return"
           /\ srv_result.value.error = "missing_arguments"
           /\ srv_result.value.message.names = JoinComma(LoginAbsent(srv_call[2]))

C12_Witness ==
    /\ srv_call # None
    /\ srv_call[1] = n_login_tool
    /\ DOMAIN srv_call[2] = {}
    /\ http_posts = <<>>
    /\ srv_result.kind = "return"
    /\ srv_result.value.error = "missing_arguments"
    /\ srv_result.value.message.names = v_name_age

\* the invocation has every parameter its tool needs
CompleteCall(call) ==
    IF call[1] = n_login_tool THEN LoginAbsent(call[2]) = <<>>
    ELSE p_query \in DOMAIN call[2]

\* the JSON body the tool sends for its arguments
ExpectedPayload(call) ==
    IF call[1] = n_login_tool
    THEN [p \in {p_name, p_age} |-> call[2][p]]
    ELSE [p \in {p_query, p_top_k, p_min_score} |->
             IF p \in DOMAIN call[2] THEN call[2][p]
             ELSE IF p = p_top_k THEN 5 ELSE "0.5"]

\* C13: a tool invocation with a complete parameter set makes exactly one
\* post, to the tool's fixed endpoint, with the parameters as JSON body; when
\* that post fails (non-2xx status, network error, undecodable JSON) the
\* error is raised to the caller and no second request is made.
C13_OnePostErrorsPropagate ==
    (srv_call # None /\ CompleteCall(srv_call))
        => /\ Len(http_posts) = 1
           /\ http_posts[1].url =
                 (IF srv_call[1] = n_login_tool
                  THEN "http://localhost:8000/login"
                  ELSE "http://localhost:8000/query")
           /\ http_posts[1].json = ExpectedPayload(srv_call)
           /\ IF http_posts[1].reply = "ok"
              THEN srv_result.kind = "return"
              ELSE /\ srv_result.kind = "raise"
                   /\ srv_result.exc =
                        (IF http_posts[1].reply = "status" THEN "httpx.HTTPStatusError"
                         ELSE IF http_posts[1].reply = "network" THEN "httpx.RequestError"
                         ELSE "ValueError")

C13_Witness ==
    /\ srv_call # None
    /\ srv_call[1] = n_login_tool
    /\ srv_call[2] = (p_name :> in_Alice) @@ (p_age :> v_30)
    /\ Len(http_posts) = 1
    /\ http_posts[1].reply = "status"
    /\ srv_result = [kind |-> "raise", exc |-> "httpx.HTTPStatusError"]

(***************************************************************************)
(* Further properties of process_query, checked under Spec                 *)
(***************************************************************************)
\* the name of the i-th listed tool occurs in the reply of the last turn
Named(i) == Contains(Lower(ServerTools[i].name), Lower(response_text))

\* the i-th listed tool was called, or a pending call for it was stored, in
\* the last turn
Touched(i) ==
    \/ \E c \in 1..Len(tool_calls) : tool_calls[c][1] = ServerTools[i].name
    \/ pending_tool_call # None /\ pending_tool_call[1] = ServerTools[i].name

\* C14: a normal-dispatch turn selects at most one tool: it ends with at
\* most one tool call or one pending call, never both, and only for the
\* first tool, in listing order, whose name occurs in the reply.
C14_FirstListedToolOnly ==
    DispatchedTurn =>
        /\ Len(tool_calls) <= 1
        /\ ~(Len(tool_calls) = 1 /\ pending_tool_call # None)
        /\ \A i \in 1..Len(ServerTools) :
              Touched(i) => (Named(i) /\ \A j \in 1..(i - 1) : ~Named(j))

C14_Witness ==
    /\ DispatchedTurn
    /\ response_text = r_both
    /\ Named(1)
    /\ Named(2)
    /\ tool_calls = <<>>
    /\ pending_tool_call # None
    /\ pending_tool_call[1] = n_login_tool

\* the elements of a sequence
Elems(seq) == {seq[i] : i \in 1..Len(seq)}

\* C15 as stated: only parameters the schema declares as required can become
\* missing parameters, and a tool with no required parameter is called at
\* once, without a pending call.
C15_OnlyRequiredBecomeMissing ==
    (DispatchedTurn /\ MatchedTool(ServerTools, response_text) # 0)
        => LET tool == ServerTools[MatchedTool(ServerTools, response_text)]
           IN  /\ pending_tool_call # None
                    => Elems(pending_tool_call[3]) \subseteq Elems(tool.input_schema.required)
               /\ tool.input_schema.required = <<>>
                    => (Len(tool_calls) = 1 /\ pending_tool_call = None)

\* C15, amended: every parameter of the schema's properties, required or
\* optional, is a candidate: for a selected tool other than query_tool a
\* parameter is a missing parameter exactly when its name does not occur in
\* the query, and the tool is called at once, without a pending call, exactly
\* when no parameter is missing; query_tool is always called at once.
C15_EverySchemaPropertyIsCandidate ==
    (DispatchedTurn /\ MatchedTool(ServerTools, response_text) # 0)
        => LET tool == ServerTools[MatchedTool(ServerTools, response_text)]
               missing == IF pending_tool_call = None THEN {}
                          ELSE Elems(pending_tool_call[3])
           IN  IF tool.name = n_query_tool
               THEN Len(tool_calls) = 1 /\ pending_tool_call = None
               ELSE /\ \A p \in Elems(tool.input_schema.properties) :
                          p \in missing <=> ~Contains(Lower(p), Lower(query))
                    /\ (Len(tool_calls) = 1 /\ pending_tool_call = None)
                          <=> AllSatisfied(tool, query)

C15_Witness ==
    /\ DispatchedTurn
    /\ response_text = r_login
    /\ login_tool.input_schema.required = <<>>
    /\ query = Strip(in_my_name)
    /\ tool_calls = <<>>
    /\ pending_tool_call # None
    /\ pending_tool_call[3] = <<p_age>>

\* the listed tool with the given name
ToolNamed(tool_name) ==
    ServerTools[CHOOSE i \in 1..Len(ServerTools) : ServerTools[i].name = tool_name]

C17_AwaitingTurnsOnlyResume ==
    [][(pending_tool_call # None /\ last' = "turn")
          => /\ gemini_calls' = 0
             /\ list_calls' = 0
             /\ \A c \in 1..Len(tool_calls') :
                    tool_calls'[c][1] = pending_tool_call[1]
             /\ IF Len(SplitComma(query')) = Len(pending_tool_call[3])
                THEN /\ Len(tool_calls') = 1
                     /\ response'.fmt \in {F_Used, F_ErrorCalling}
                     /\ pending_tool_call' = None
                ELSE /\ tool_calls' = <<>>
                     /\ response'.fmt = F_Expected
                     /\ pending_tool_call' = pending_tool_call]_vars

C17_Witness ==
    /\ last = "turn"
    /\ entry_pending # None
    /\ entry_pending[3] = <<p_name>>
    /\ query = in_a_b_c
    /\ gemini_calls = 0
    /\ tool_calls = <<>>
    /\ response.fmt = F_Expected
    /\ pending_tool_call = entry_pending

====
